---------------------------- MODULE Spec2Model ----------------------------
(***************************************************************************)
(* A model of ema_scanner_yahoo.py: the EMA calculator, the price fetcher, *)
(* the symbol universe builder, the scan loop over the worker pool and the *)
(* summary printed by main.                                                *)
(*                                                                         *)
(* Numbers.  Python floats are modelled as exact rationals <<n, d>> in     *)
(* lowest terms with d > 0; rounding is not modelled.  Close prices are    *)
(* drawn from a small set of integers.                                     *)
(*                                                                         *)
(* Scaling.  The literals 50 and 200 (EMA periods and the 50-point floor), *)
(* the pool size 10 and the top-10 cut are kept as the named definitions   *)
(* EMA_SHORT, EMA_LONG, max_workers and TOP_N, with small values so that   *)
(* the series on both sides of each threshold can be enumerated.  Every    *)
(* statement below is made in terms of these names, never of the values.   *)
(***************************************************************************)
EXTENDS Integers, Sequences, FiniteSets, TLC

VARIABLES
    prices, period, ema,            \* calculate_ema: arguments and returned value
    response, fetched, calls,       \* fetch_yahoo_data: the endpoint's answer, the
                                    \* completion, the calculate_ema calls it made
    scrape,                         \* what the symbol-list page request gives
    upc,                            \* main's position while building the universe
    sp500, nasdaq, crypto,          \* the three lists gathered by main
    all_symbols,                    \* their concatenation
    seen, di,                       \* the dedup loop: symbols seen, entries visited
    unique_symbols,                 \* the deduplicated universe
    pc,                             \* main's position in the scan
    submitted,                      \* how many instruments were handed to the pool
    fstate, foutcome,               \* per future: its state and its completion
    started,                        \* per future: how often its fetch was started
    yielded,                        \* the futures as_completed has handed to the loop
    results, failed,                \* the loop's accumulators
    output,                         \* the report written to the file
    summary                         \* what the summary prints

emaVars == <<prices, period, ema>>

fetchVars == <<response, fetched, calls>>

univVars == <<scrape, upc, sp500, nasdaq, crypto, all_symbols, seen, di>>

scanVars == <<pc, submitted, fstate, foutcome, started, yielded, results, failed,
              output, summary>>

vars == <<emaVars, fetchVars, univVars, unique_symbols, scanVars>>

\* What the scan leaves alone.
notScan == <<emaVars, fetchVars, univVars, unique_symbols>>

-----------------------------------------------------------------------------
(* Bounds and constants *)

\* The short EMA period and the minimum number of closes (50 in the source).
EMA_SHORT == 3
\* The long EMA period (200 in the source).
EMA_LONG == 5
\* The longest close series enumerated: one more than the long period.
MaxCloses == EMA_LONG + 1
\* The HTTP status that counts as success.
HTTP_OK == 200
\* Close prices the endpoint may report.
PriceValues == {0, 1, 2}
\* The most anchors scraped from the symbol-list page (symbols[:500]).
SCRAPE_LIMIT == 500
\* The longest symbol-list page enumerated, in table-cell anchors.
MaxCells == 3
\* The size of the worker pool (10 in the source).
max_workers == 2
\* The largest universe scanned.
MaxUniverse == 4
\* The width of the near-breakout band below the EMA, in percent.
NEAR_PCT == 3
\* The length of the printed near-breakout list (10 in the source).
TOP_N == 2
\* The longest result list summarised on its own.
MaxResults == 3

-----------------------------------------------------------------------------
(* Float arithmetic, as exact rationals *)

Abs(x) == IF x < 0 THEN -x ELSE x

Min(a, b) == IF a < b THEN a ELSE b

RECURSIVE Gcd(_, _)
Gcd(a, b) == IF b = 0 THEN a ELSE Gcd(b, a % b)

\* n / d in lowest terms, d # 0.
Rat(n, d) ==
    LET s == IF d < 0 THEN -1 ELSE 1
        g == Gcd(Abs(n), Abs(d))
    IN  <<(s * n) \div g, (s * d) \div g>>

FromInt(i) == <<i, 1>>

Zero == <<0, 1>>

\* The operations cancel common factors before they multiply, to keep the
\* intermediate integers small.
RAdd(a, b) ==
    LET g == Gcd(a[2], b[2])
    IN  Rat(a[1] * (b[2] \div g) + b[1] * (a[2] \div g), (a[2] \div g) * b[2])

RNeg(a) == <<-a[1], a[2]>>

RSub(a, b) == RAdd(a, RNeg(b))

RMul(a, b) ==
    LET g1 == Gcd(Abs(a[1]), b[2])
        g2 == Gcd(Abs(b[1]), a[2])
    IN  Rat((a[1] \div g1) * (b[1] \div g2), (a[2] \div g2) * (b[2] \div g1))

\* a / b, b # Zero (Python raises ZeroDivisionError otherwise; callers test).
RDiv(a, b) == RMul(a, IF b[1] < 0 THEN <<-b[2], -b[1]>> ELSE <<b[2], b[1]>>)

RLess(a, b) ==
    LET g == Gcd(a[2], b[2])
    IN  a[1] * (b[2] \div g) < b[1] * (a[2] \div g)

RAbs(a) == <<Abs(a[1]), a[2]>>

-----------------------------------------------------------------------------
(* calculate_ema *)

\* for price in prices[1:]: ema = price * k + ema * (1 - k), from index i on.
RECURSIVE EmaLoop(_, _, _, _)
EmaLoop(ps, i, acc, k) ==
    IF i > Len(ps) THEN acc
    ELSE EmaLoop(ps, i + 1,
                 RAdd(RMul(FromInt(ps[i]), k), RMul(acc, RSub(FromInt(1), k))),
                 k)

\* An EMA that first trims its input to the trailing p elements.
calculate_ema_trimming(ps, p) ==
    IF Len(ps) < p THEN Zero
    ELSE EmaLoop(SubSeq(ps, Len(ps) - p + 1, Len(ps)), 2, FromInt(ps[Len(ps) - p + 1]),
                 RDiv(FromInt(2), FromInt(p + 1)))

calculate_ema(ps, p) ==
    IF Len(ps) < p THEN Zero
    ELSE EmaLoop(ps, 2, FromInt(ps[1]), RDiv(FromInt(2), FromInt(p + 1)))

-----------------------------------------------------------------------------
(* fetch_yahoo_data *)

\* A JSON null in the close list is <<>>, a number v is <<v>>.
Null == <<>>

RawCloses == {Null} \cup {<<v>> : v \in PriceValues}

\* closes = [c for c in closes if c is not None]
RECURSIVE NonNull(_)
NonNull(raw) ==
    IF raw = <<>> THEN <<>>
    ELSE IF Head(raw) = Null THEN NonNull(Tail(raw))
    ELSE <<Head(raw)[1]>> \o NonNull(Tail(raw))

\* s[-n:]
LastN(s, n) == SubSeq(s, Len(s) - Min(n, Len(s)) + 1, Len(s))

\* The short EMA taken over the whole series instead of its trailing part.
Ema50ArgsUntrimmed(closes) == <<closes, EMA_SHORT>>

\* The long EMA without the degraded-period fallback.
Ema200ArgsNoFallback(closes) == <<LastN(closes, EMA_LONG), EMA_LONG>>

\* The arguments of the two calculate_ema calls.
Ema50Args(closes) == <<LastN(closes, EMA_SHORT), EMA_SHORT>>

Ema200Args(closes) ==
    IF Len(closes) >= EMA_LONG
    THEN <<LastN(closes, EMA_LONG), EMA_LONG>>
    ELSE <<closes, Len(closes)>>

Call(args) ==
    [prices |-> args[1], period |-> args[2], ret |-> calculate_ema(args[1], args[2])]

\* Body shapes that the membership tests of lines 41 and 46 reject.
RejectedShapes == {"no_chart", "no_result", "empty_result", "no_indicators", "no_quote"}

\* Body shapes on which line 49 or 50 raises: an empty quote list (IndexError),
\* no close field (KeyError), a close that cannot be iterated, such as a
\* number or null (TypeError).
RaisingShapes == {"empty_quote", "no_close", "close_not_list"}

\* Whether the request and the body let the fetcher reach line 55.
ReachesEma(r) ==
    /\ ~r.raises
    /\ r.status = HTTP_OK
    /\ r.shape = "ok"
    /\ Len(NonNull(r.close)) >= EMA_SHORT

\* The calculate_ema calls of lines 56-57, in order.
FetchCalls(r) ==
    IF ReachesEma(r)
    THEN <<Call(Ema50Args(NonNull(r.close))), Call(Ema200Args(NonNull(r.close)))>>
    ELSE <<>>

None == [kind |-> "none"]

Raise == [kind |-> "raised"]

\* ((current_price - ema) / ema) * 100, ema # Zero
Distance(current_price, e) ==
    RMul(RDiv(RSub(FromInt(current_price), e), e), FromInt(100))

\* The statements inside try: a returned value, or Raise.
FetchBody(symbol_info, r) ==
    IF r.raises THEN Raise
    ELSE IF r.status # HTTP_OK THEN None
    ELSE IF r.shape = "not_json" THEN Raise
    ELSE IF r.shape \in RejectedShapes THEN None
    ELSE IF r.shape \in RaisingShapes THEN Raise
    ELSE LET closes == NonNull(r.close) IN
         IF Len(closes) < EMA_SHORT THEN None
         ELSE LET current_price == closes[Len(closes)]
                  ema50 == FetchCalls(r)[1].ret
                  ema200 == FetchCalls(r)[2].ret
              IN  IF ema50 = Zero \/ ema200 = Zero THEN Raise
                  ELSE [kind |-> "result",
                        symbol |-> symbol_info.symbol,
                        type |-> symbol_info.type,
                        name |-> symbol_info.name,
                        index |-> symbol_info.index,
                        currentPrice |-> FromInt(current_price),
                        ema50 |-> ema50,
                        ema200 |-> ema200,
                        ema50Distance |-> Distance(current_price, ema50),
                        ema200Distance |-> Distance(current_price, ema200)]

\* The fetcher with the except clause left out: an error reaches the caller.
fetch_without_except(symbol_info, r) == FetchBody(symbol_info, r)

\* try: ... except Exception: return None
fetch_yahoo_data(symbol_info, r) ==
    IF FetchBody(symbol_info, r).kind = "raised" THEN None
    ELSE FetchBody(symbol_info, r)

-----------------------------------------------------------------------------
(* The symbol lists *)

SpyStock(s) == [symbol |-> s, type |-> "stock", name |-> s, index |-> "SPY"]

major_sp500 == <<
    "AAPL", "MSFT", "GOOGL", "AMZN", "NVDA", "META", "TSLA", "BRK.B",
    "LLY", "AVGO", "JPM", "V", "UNH", "XOM", "WMT", "MA",
    "PG", "JNJ", "HD", "COST", "NFLX", "BAC", "CRM", "ABBV",
    "CVX", "KO", "MRK", "AMD", "PEP", "ADBE", "TMO", "ACN",
    "MCD", "CSCO", "ABT", "WFC", "LIN", "ORCL", "DIS", "GE",
    "CMCSA", "PM", "QCOM", "IBM", "VZ", "INTC", "TXN", "NOW",
    "AMGN", "CAT">>

nasdaq100 == <<
    "AAPL", "MSFT", "GOOGL", "GOOG", "AMZN", "NVDA", "META", "TSLA",
    "AVGO", "COST", "ASML", "NFLX", "AMD", "ADBE", "PEP", "CSCO",
    "TMUS", "LIN", "TXN", "QCOM", "INTU", "CMCSA", "AMGN", "HON",
    "AMAT", "SBUX", "PANW", "BKNG", "ISRG", "ADP", "GILD", "VRTX",
    "ADI", "MU", "REGN", "LRCX", "MDLZ", "INTC", "PYPL", "KLAC",
    "SNPS", "CDNS", "MELI", "CTAS", "CRWD", "MAR", "PDD", "NXPI",
    "MRVL", "FTNT", "ORLY", "CSX", "ADSK", "DASH", "ABNB", "ROP",
    "WDAY", "PCAR", "MNST", "AEP", "CPRT", "CHTR", "ROST", "ODFL",
    "PAYX", "FAST", "KDP", "MCHP", "EA", "BKR", "DXCM", "VRSK",
    "AZN", "GEHC", "CTSH", "XEL", "KHC", "EXC", "TEAM", "LULU",
    "IDXX", "CCEP", "CSGP", "ZS", "ANSS", "TTWO", "FANG", "ON",
    "CDW", "BIIB", "WBD", "GFS", "DDOG", "MDB", "ILMN", "MRNA",
    "WBA", "ARM", "DLTR", "SMCI">>

top_crypto == <<
    <<"BTC-USD", "Bitcoin">>, <<"ETH-USD", "Ethereum">>, <<"BNB-USD", "BNB">>,
    <<"SOL-USD", "Solana">>, <<"XRP-USD", "Ripple">>, <<"USDC-USD", "USD Coin">>,
    <<"ADA-USD", "Cardano">>, <<"AVAX-USD", "Avalanche">>, <<"DOGE-USD", "Dogecoin">>,
    <<"TRX-USD", "TRON">>, <<"DOT-USD", "Polkadot">>, <<"MATIC-USD", "Polygon">>,
    <<"LTC-USD", "Litecoin">>, <<"SHIB-USD", "Shiba Inu">>, <<"UNI-USD", "Uniswap">>,
    <<"LINK-USD", "Chainlink">>, <<"ATOM-USD", "Cosmos">>, <<"XLM-USD", "Stellar">>,
    <<"XMR-USD", "Monero">>, <<"BCH-USD", "Bitcoin Cash">>, <<"ALGO-USD", "Algorand">>,
    <<"FIL-USD", "Filecoin">>, <<"ETC-USD", "Ethereum Classic">>, <<"HBAR-USD", "Hedera">>,
    <<"AAVE-USD", "Aave">>, <<"VET-USD", "VeChain">>, <<"THETA-USD", "Theta">>,
    <<"ICP-USD", "Internet Computer">>, <<"AXS-USD", "Axie Infinity">>, <<"SAND-USD", "Sandbox">>,
    <<"MANA-USD", "Decentraland">>, <<"GRT-USD", "The Graph">>, <<"SNX-USD", "Synthetix">>,
    <<"FTM-USD", "Fantom">>, <<"EGLD-USD", "MultiversX">>, <<"FLOW-USD", "Flow">>,
    <<"XTZ-USD", "Tezos">>, <<"KLAY-USD", "Klaytn">>, <<"CHZ-USD", "Chiliz">>,
    <<"ZEC-USD", "Zcash">>, <<"BAT-USD", "Basic Attention">>, <<"ENJ-USD", "Enjin">>,
    <<"1INCH-USD", "1inch">>, <<"CRV-USD", "Curve">>, <<"LRC-USD", "Loopring">>,
    <<"COMP-USD", "Compound">>, <<"YFI-USD", "Yearn.finance">>, <<"SUSHI-USD", "SushiSwap">>,
    <<"ZRX-USD", "0x">>, <<"OMG-USD", "OMG Network">>, <<"BAL-USD", "Balancer">>,
    <<"REN-USD", "Ren">>, <<"BNT-USD", "Bancor">>, <<"STORJ-USD", "Storj">>,
    <<"ANT-USD", "Aragon">>, <<"KNC-USD", "Kyber Network">>, <<"REP-USD", "Augur">>,
    <<"NMR-USD", "Numeraire">>, <<"RLC-USD", "iExec RLC">>, <<"OCEAN-USD", "Ocean Protocol">>,
    <<"ANKR-USD", "Ankr">>, <<"SKL-USD", "SKALE">>, <<"API3-USD", "API3">>,
    <<"AUDIO-USD", "Audius">>, <<"BAND-USD", "Band Protocol">>, <<"COTI-USD", "COTI">>,
    <<"CTSI-USD", "Cartesi">>, <<"CELR-USD", "Celer Network">>, <<"FET-USD", "Fetch.ai">>,
    <<"INJ-USD", "Injective">>, <<"MASK-USD", "Mask Network">>, <<"NKN-USD", "NKN">>,
    <<"NU-USD", "NuCypher">>, <<"OGN-USD", "Origin Protocol">>, <<"PERP-USD", "Perpetual">>,
    <<"POLS-USD", "Polkastarter">>, <<"POLY-USD", "Polymath">>, <<"QNT-USD", "Quant">>,
    <<"RARI-USD", "Rarible">>, <<"RSR-USD", "Reserve Rights">>, <<"SKL-USD", "SKALE">>,
    <<"SRM-USD", "Serum">>, <<"SUPER-USD", "SuperFarm">>, <<"SXP-USD", "Swipe">>,
    <<"TRB-USD", "Tellor">>, <<"UMA-USD", "UMA">>, <<"WNXM-USD", "Wrapped NXM">>,
    <<"XYO-USD", "XYO">>, <<"YGG-USD", "Yield Guild">>, <<"APE-USD", "ApeCoin">>,
    <<"GMT-USD", "STEPN">>, <<"GAL-USD", "Galxe">>, <<"OP-USD", "Optimism">>,
    <<"ARB-USD", "Arbitrum">>, <<"BLUR-USD", "Blur">>, <<"PEPE-USD", "Pepe">>,
    <<"STX-USD", "Stacks">>, <<"IMX-USD", "Immutable">>, <<"RNDR-USD", "Render">>,
    <<"LDO-USD", "Lido DAO">>, <<"RPL-USD", "Rocket Pool">>, <<"FXS-USD", "Frax Share">>>>

\* s[:n]
FirstN(s, n) == SubSeq(s, 1, Min(n, Len(s)))

\* The anchor texts of the page's table cells that the pattern
\* <td><a[^>]*>([A-Z\.]+)</a> can meet: tickers, which it matches whole, and a
\* company name, which it does not match.
TickerTexts == {"AAPL", "GOOG", "ZTS"}

CellTexts == TickerTexts \cup {"Apple Inc."}

\* re.findall over the page: the matching anchor texts, in page order.
RECURSIVE FindAll(_)
FindAll(cells) ==
    IF cells = <<>> THEN <<>>
    ELSE IF Head(cells) \in TickerTexts THEN <<Head(cells)>> \o FindAll(Tail(cells))
    ELSE FindAll(Tail(cells))

\* get_sp500_symbols: the scraped list, or the fixed list when the try raises.
get_sp500_symbols(sc) ==
    IF sc.raises
    THEN [i \in 1..Len(major_sp500) |-> SpyStock(major_sp500[i])]
    ELSE LET symbols == FirstN(FindAll(sc.cells), SCRAPE_LIMIT)
         IN  [i \in 1..Len(symbols) |-> SpyStock(symbols[i])]

get_nasdaq100_symbols ==
    [i \in 1..Len(nasdaq100) |->
        [symbol |-> nasdaq100[i], type |-> "stock", name |-> nasdaq100[i],
         index |-> "NASDAQ"]]

get_top_crypto ==
    [i \in 1..Len(top_crypto) |->
        [symbol |-> top_crypto[i][1], type |-> "crypto", name |-> top_crypto[i][2],
         index |-> "CRYPTO"]]

-----------------------------------------------------------------------------
(* The summary printed by main *)

\* -3 < r['ema50Distance'] < 0
IsNear(r) == RLess(FromInt(-NEAR_PCT), r.ema50Distance) /\ RLess(r.ema50Distance, Zero)

\* r['ema50Distance'] > 0
IsAbove(r) == RLess(Zero, r.ema50Distance)

OfType(rs, t) == SelectSeq(rs, LAMBDA r : r.type = t)

\* abs(x['ema50Distance'])
SortKey(r) == RAbs(r.ema50Distance)

\* x put after the elements of the sorted list whose key is not greater than x's.
RECURSIVE InsertSorted(_, _)
InsertSorted(sorted, x) ==
    IF sorted = <<>> THEN <<x>>
    ELSE IF RLess(SortKey(x), SortKey(Head(sorted))) THEN <<x>> \o sorted
    ELSE <<Head(sorted)>> \o InsertSorted(Tail(sorted), x)

RECURSIVE SortFrom(_, _, _)
SortFrom(rs, i, sorted) ==
    IF i > Len(rs) THEN sorted ELSE SortFrom(rs, i + 1, InsertSorted(sorted, rs[i]))

\* The list left in its original order.
SortByDistanceOmitted(rs) == rs

\* list.sort(key=lambda x: abs(x['ema50Distance'])): ascending and stable.
SortByDistance(rs) == SortFrom(rs, 1, <<>>)

NoSummary ==
    [printed |-> FALSE, near_50_stocks |-> <<>>, above_50_stocks |-> <<>>,
     near_50_crypto |-> <<>>, above_50_crypto |-> <<>>, top |-> <<>>]

\* if results: ... the four lists whose lengths are printed, and all_near[:10].
Summary(rs) ==
    IF rs = <<>> THEN NoSummary
    ELSE [printed |-> TRUE,
          near_50_stocks |-> SelectSeq(OfType(rs, "stock"), IsNear),
          above_50_stocks |-> SelectSeq(OfType(rs, "stock"), IsAbove),
          near_50_crypto |-> SelectSeq(OfType(rs, "crypto"), IsNear),
          above_50_crypto |-> SelectSeq(OfType(rs, "crypto"), IsAbove),
          top |-> FirstN(SortByDistance(SelectSeq(rs, IsNear)), TOP_N)]

\* The report dumped to ema_scan_results.json (the timestamp is left out).
Report(universe, rs, nfailed) ==
    [source |-> "Yahoo Finance (Free API)",
     totalScanned |-> Len(universe),
     successful |-> Len(rs),
     failed |-> nfailed,
     data |-> rs]

NoReport == [source |-> "none"]

-----------------------------------------------------------------------------
(* The scan: main's loop over the worker pool *)

N == Len(unique_symbols)

Running == {i \in 1..N : fstate[i] = "running"}

Queued == {i \in 1..N : fstate[i] = "queued"}

Finished == {i \in 1..N : fstate[i] = "finished"}

\* executor.submit(fetch_yahoo_data, s) for the next s of unique_symbols; the
\* as_completed loop is entered once the comprehension has submitted them all.
Submit ==
    /\ pc = "submit"
    /\ submitted < N
    /\ submitted' = submitted + 1
    /\ fstate' = [fstate EXCEPT ![submitted + 1] = "queued"]
    /\ pc' = IF submitted + 1 = N THEN "collect" ELSE "submit"
    /\ UNCHANGED <<foutcome, started, yielded, results, failed, output, summary, notScan>>

\* A free worker of the pool takes the oldest queued fetch, capped or not.
StartFetchUncapped(i) ==
    /\ i \in Queued
    /\ \A j \in Queued : i <= j
    /\ fstate' = [fstate EXCEPT ![i] = "running"]
    /\ started' = [started EXCEPT ![i] = @ + 1]
    /\ UNCHANGED <<pc, submitted, foutcome, yielded, results, failed, output, summary, notScan>>

\* ThreadPoolExecutor(max_workers=10): a worker takes the oldest queued fetch
\* while fewer than max_workers are running.
StartFetch(i) ==
    /\ i \in Queued
    /\ \A j \in Queued : i <= j
    /\ Cardinality(Running) < max_workers
    /\ fstate' = [fstate EXCEPT ![i] = "running"]
    /\ started' = [started EXCEPT ![i] = @ + 1]
    /\ UNCHANGED <<pc, submitted, foutcome, yielded, results, failed, output, summary, notScan>>

\* The answers the endpoint gives during a scan: an error status, a series whose
\* last close lies below its EMA, and one whose last close lies above it.
ScanResponses ==
    {[raises |-> FALSE, status |-> 404, shape |-> "ok", close |-> <<>>],
     [raises |-> FALSE, status |-> HTTP_OK, shape |-> "ok",
      close |-> [i \in 1..EMA_SHORT |-> IF i = EMA_SHORT THEN <<1>> ELSE <<2>>]],
     [raises |-> FALSE, status |-> HTTP_OK, shape |-> "ok",
      close |-> [i \in 1..EMA_SHORT |-> IF i = EMA_SHORT THEN <<2>> ELSE <<1>>]]}

\* The i-th instrument of the universes scanned: stocks and crypto alternate.
ScanInstrument(i) ==
    IF i % 2 = 1 THEN get_nasdaq100_symbols[(i + 1) \div 2]
    ELSE get_top_crypto[i \div 2]

\* fetch_yahoo_data over the instruments and the answers of a scan, tabulated
\* once: the value of ScanFetch[s, r] is fetch_yahoo_data(s, r).
ScanFetch ==
    [s \in {ScanInstrument(i) : i \in 1..MaxUniverse}, r \in ScanResponses |->
        fetch_yahoo_data(s, r)]

\* The fetch of future i returns: the endpoint answered r.
FinishFetch(i, r) ==
    /\ i \in Running
    /\ fstate' = [fstate EXCEPT ![i] = "finished"]
    /\ foutcome' = [foutcome EXCEPT ![i] = ScanFetch[unique_symbols[i], r]]
    /\ UNCHANGED <<pc, submitted, started, yielded, results, failed, output, summary, notScan>>

\* The loop body that counts a failure only when the future raised.
CollectIgnoringNone(i) ==
    /\ pc = "collect"
    /\ i \in Finished \ yielded
    /\ yielded' = yielded \cup {i}
    /\ results' = IF foutcome[i].kind = "result" THEN Append(results, foutcome[i])
                  ELSE results
    /\ failed' = IF foutcome[i].kind = "raised" THEN failed + 1 ELSE failed
    /\ pc' = IF yielded' = 1..N THEN "save" ELSE "collect"
    /\ UNCHANGED <<submitted, fstate, foutcome, started, output, summary, notScan>>

\* The loop that ends at the first completion.
CollectOnce(i) ==
    /\ pc = "collect"
    /\ i \in Finished \ yielded
    /\ yielded' = yielded \cup {i}
    /\ results' = IF foutcome[i].kind = "result" THEN Append(results, foutcome[i])
                  ELSE results
    /\ failed' = IF foutcome[i].kind = "result" THEN failed ELSE failed + 1
    /\ pc' = "save"
    /\ UNCHANGED <<submitted, fstate, foutcome, started, output, summary, notScan>>

\* One turn of the as_completed loop: future i, finished and not yet yielded, is
\* classified; the loop ends when every future has been yielded.
Collect(i) ==
    /\ pc = "collect"
    /\ i \in Finished \ yielded
    /\ yielded' = yielded \cup {i}
    /\ results' = IF foutcome[i].kind = "result" THEN Append(results, foutcome[i])
                  ELSE results
    /\ failed' = IF foutcome[i].kind = "result" THEN failed ELSE failed + 1
    /\ pc' = IF yielded' = 1..N THEN "save" ELSE "collect"
    /\ UNCHANGED <<submitted, fstate, foutcome, started, output, summary, notScan>>

\* After the with block: the report is assembled and written, the summary printed.
SaveAndSummarise ==
    /\ pc = "save"
    /\ output' = Report(unique_symbols, results, failed)
    /\ summary' = Summary(results)
    /\ pc' = "done"
    /\ UNCHANGED <<submitted, fstate, foutcome, started, yielded, results, failed, notScan>>

-----------------------------------------------------------------------------
(* Input sets *)

SeqsUpTo(S, n) == UNION {[1..m -> S] : m \in 0..n}

\* The instrument the fetcher is exercised with on its own.
SampleInstrument == SpyStock("AAPL")

Statuses == {HTTP_OK, 404}

\* What the endpoint may answer: the request raising (network fault, timeout),
\* or a status with a body that is not JSON, lacks a level of the
\* chart/result/indicators/quote/close structure, or carries a close list.
Responses ==
    {[raises |-> TRUE, status |-> 0, shape |-> "none", close |-> <<>>]}
    \cup {[raises |-> FALSE, status |-> s, shape |-> sh, close |-> <<>>] :
            s \in Statuses, sh \in RejectedShapes \cup RaisingShapes \cup {"not_json"}}
    \cup {[raises |-> FALSE, status |-> s, shape |-> "ok", close |-> c] :
            s \in Statuses, c \in SeqsUpTo(RawCloses, MaxCloses)}

NoResponse == [raises |-> FALSE, status |-> 0, shape |-> "idle", close |-> <<>>]

Pending == [kind |-> "pending"]

\* What the symbol-list page request may give: an error raised by the request,
\* or a page (an error page too: the status is not looked at) with its cells.
Scrapes ==
    {[raises |-> TRUE, status |-> 0, cells |-> <<>>]}
    \cup {[raises |-> FALSE, status |-> s, cells |-> c] :
            s \in Statuses, c \in SeqsUpTo(CellTexts, MaxCells)}

NoScrape == [raises |-> FALSE, status |-> 0, cells |-> <<"idle">>]

\* A ScanResult of instrument inst whose EMAs are 100 and whose price is given.
MakeResult(inst, price) ==
    [kind |-> "result", symbol |-> inst.symbol, type |-> inst.type,
     name |-> inst.name, index |-> inst.index,
     currentPrice |-> FromInt(price), ema50 |-> FromInt(100), ema200 |-> FromInt(100),
     ema50Distance |-> Distance(price, FromInt(100)),
     ema200Distance |-> Distance(price, FromInt(100))]

\* Prices around an EMA of 100: 3% and more below, inside the band, at, above.
ReportPrices == {97, 98, 99, 100, 101}

-----------------------------------------------------------------------------
(* Idle values of the parts a specification does not exercise *)

EmaIdle == prices = <<>> /\ period = 0 /\ ema = <<>>

FetchIdle == response = NoResponse /\ fetched = Pending /\ calls = <<>>

UnivIdle ==
    /\ scrape = NoScrape
    /\ upc = "idle"
    /\ sp500 = <<>>
    /\ nasdaq = <<>>
    /\ crypto = <<>>
    /\ all_symbols = <<>>
    /\ seen = {}
    /\ di = 0

ScanIdle ==
    /\ pc = "idle"
    /\ submitted = 0
    /\ fstate = <<>>
    /\ foutcome = <<>>
    /\ started = <<>>
    /\ yielded = {}
    /\ results = <<>>
    /\ failed = 0
    /\ output = NoReport
    /\ summary = NoSummary

-----------------------------------------------------------------------------
(* The EMA calculator on its own *)

InitEma ==
    /\ prices \in SeqsUpTo(PriceValues, MaxCloses)
    /\ period \in 1..(MaxCloses + 1)
    /\ ema = <<>>
    /\ FetchIdle /\ UnivIdle /\ unique_symbols = <<>> /\ ScanIdle

ComputeEma ==
    /\ period > 0
    /\ ema = <<>>
    /\ ema' = calculate_ema(prices, period)
    /\ UNCHANGED <<prices, period, fetchVars, univVars, unique_symbols, scanVars>>

SpecEma == InitEma /\ [][ComputeEma]_vars

-----------------------------------------------------------------------------
(* The price fetcher on its own *)

InitFetch ==
    /\ response \in Responses
    /\ fetched = Pending
    /\ calls = <<>>
    /\ EmaIdle /\ UnivIdle /\ unique_symbols = <<>> /\ ScanIdle

Fetch ==
    /\ response # NoResponse
    /\ fetched = Pending
    /\ fetched' = fetch_yahoo_data(SampleInstrument, response)
    /\ calls' = FetchCalls(response)
    /\ UNCHANGED <<response, emaVars, univVars, unique_symbols, scanVars>>

SpecFetch == InitFetch /\ [][Fetch]_vars

-----------------------------------------------------------------------------
(* The universe builder: main, lines 168-181 *)

InitUniverse ==
    /\ scrape \in Scrapes
    /\ upc = "start"
    /\ sp500 = <<>>
    /\ nasdaq = <<>>
    /\ crypto = <<>>
    /\ all_symbols = <<>>
    /\ seen = {}
    /\ di = 0
    /\ unique_symbols = <<>>
    /\ EmaIdle /\ FetchIdle /\ ScanIdle

\* sp500 = get_sp500_symbols(); nasdaq = ...; crypto = ...; all_symbols = their
\* sum; seen = set(); unique_symbols = []
GatherSymbols ==
    /\ upc = "start"
    /\ sp500' = get_sp500_symbols(scrape)
    /\ nasdaq' = get_nasdaq100_symbols
    /\ crypto' = get_top_crypto
    /\ all_symbols' = sp500' \o nasdaq' \o crypto'
    /\ upc' = "dedup"
    /\ UNCHANGED <<scrape, seen, di, unique_symbols, emaVars, fetchVars, scanVars>>

\* One turn of the loop that appends whatever was seen before.
DedupStepKeepingAll ==
    /\ upc = "dedup"
    /\ di < Len(all_symbols)
    /\ di' = di + 1
    /\ seen' = seen \cup {all_symbols[di + 1].symbol}
    /\ unique_symbols' = Append(unique_symbols, all_symbols[di + 1])
    /\ UNCHANGED <<scrape, upc, sp500, nasdaq, crypto, all_symbols, emaVars, fetchVars,
                   scanVars>>

\* One turn of for s in all_symbols: if s['symbol'] not in seen: seen.add(...);
\* unique_symbols.append(s)
DedupStep ==
    /\ upc = "dedup"
    /\ di < Len(all_symbols)
    /\ di' = di + 1
    /\ IF all_symbols[di + 1].symbol \notin seen
       THEN /\ seen' = seen \cup {all_symbols[di + 1].symbol}
            /\ unique_symbols' = Append(unique_symbols, all_symbols[di + 1])
       ELSE UNCHANGED <<seen, unique_symbols>>
    /\ UNCHANGED <<scrape, upc, sp500, nasdaq, crypto, all_symbols, emaVars, fetchVars,
                   scanVars>>

\* The loop has visited every entry.
DedupDone ==
    /\ upc = "dedup"
    /\ di = Len(all_symbols)
    /\ upc' = "deduped"
    /\ UNCHANGED <<scrape, sp500, nasdaq, crypto, all_symbols, seen, di, unique_symbols,
                   emaVars, fetchVars, scanVars>>

NextUniverse == GatherSymbols \/ DedupStep \/ DedupDone

SpecUniverse == InitUniverse /\ [][NextUniverse]_vars

-----------------------------------------------------------------------------
(* The scan on its own *)

InitScan ==
    /\ unique_symbols \in {[i \in 1..n |-> ScanInstrument(i)] : n \in 1..MaxUniverse}
    /\ pc = "submit"
    /\ submitted = 0
    /\ fstate = [i \in 1..Len(unique_symbols) |-> "unsubmitted"]
    /\ foutcome = [i \in 1..Len(unique_symbols) |-> Pending]
    /\ started = [i \in 1..Len(unique_symbols) |-> 0]
    /\ yielded = {}
    /\ results = <<>>
    /\ failed = 0
    /\ output = NoReport
    /\ summary = NoSummary
    /\ EmaIdle /\ FetchIdle /\ UnivIdle

NextScan ==
    \/ Submit
    \/ \E i \in 1..N : StartFetch(i)
    \/ \E i \in 1..N, r \in ScanResponses : FinishFetch(i, r)
    \/ \E i \in 1..N : Collect(i)
    \/ SaveAndSummarise

SpecScan == InitScan /\ [][NextScan]_vars

\* The threads are scheduled and every fetch returns (the request has a timeout).
SpecScanLive == SpecScan /\ WF_vars(NextScan)

-----------------------------------------------------------------------------
(* The summary on its own: main from line 209 on, after a scan in which every *)
(* fetch gave a result                                                        *)

InitReport ==
    /\ \E n \in 0..MaxResults :
         \E kinds \in [1..n -> {"stock", "crypto"}], ps \in [1..n -> ReportPrices] :
            /\ unique_symbols =
                  [i \in 1..n |-> IF kinds[i] = "stock" THEN get_nasdaq100_symbols[i]
                                  ELSE get_top_crypto[i]]
            /\ results = [i \in 1..n |-> MakeResult(unique_symbols[i], ps[i])]
    /\ pc = "save"
    /\ submitted = Len(unique_symbols)
    /\ fstate = [i \in 1..Len(unique_symbols) |-> "finished"]
    /\ foutcome = results
    /\ started = [i \in 1..Len(unique_symbols) |-> 1]
    /\ yielded = 1..Len(unique_symbols)
    /\ failed = 0
    /\ output = NoReport
    /\ summary = NoSummary
    /\ EmaIdle /\ FetchIdle /\ UnivIdle

SpecReport == InitReport /\ [][SaveAndSummarise]_vars

-----------------------------------------------------------------------------
(* Reference values used by the properties *)

RECURSIVE Pow(_, _)
Pow(b, e) == IF e = 0 THEN 1 ELSE b * Pow(b, e - 1)

\* The smoothing recurrence unrolled over the whole of ps, with k = 2 / (p + 1):
\*   (1-k)^(n-1) ps[1] + SUM i in 2..n : k (1-k)^(n-i) ps[i]
\* over the common denominator (p+1)^(n-1).
RECURSIVE UnrolledNum(_, _, _)
UnrolledNum(ps, p, i) ==
    IF i > Len(ps) THEN 0
    ELSE 2 * Pow(p - 1, Len(ps) - i) * Pow(p + 1, i - 2) * ps[i] + UnrolledNum(ps, p, i + 1)

Unrolled(ps, p) ==
    Rat(Pow(p - 1, Len(ps) - 1) * ps[1] + UnrolledNum(ps, p, 2), Pow(p + 1, Len(ps) - 1))

\* The non-null closes of the response under test.
Closes == NonNull(response.close)

\* The EMAs the fetcher is to derive from a usable series cl.
Want50(cl) == Unrolled(LastN(cl, EMA_SHORT), EMA_SHORT)

Want200(cl) ==
    IF Len(cl) >= EMA_LONG THEN Unrolled(LastN(cl, EMA_LONG), EMA_LONG)
    ELSE Unrolled(cl, Len(cl))

\* d is the signed percentage distance of price from e: d * e = (price - e) * 100.
IsDistance(d, price, e) == RMul(d, e) = RMul(RSub(price, e), FromInt(100))

\* The fetcher returned a ScanResult carrying the values the series cl calls for.
ResultAsWanted(cl) ==
    /\ fetched.kind = "result"
    /\ fetched.currentPrice = FromInt(cl[Len(cl)])
    /\ fetched.ema50 = Want50(cl)
    /\ fetched.ema200 = Want200(cl)
    /\ IsDistance(fetched.ema50Distance, fetched.currentPrice, fetched.ema50)
    /\ IsDistance(fetched.ema200Distance, fetched.currentPrice, fetched.ema200)
    /\ Len(cl) = EMA_SHORT =>
          /\ fetched.ema200 = fetched.ema50
          /\ fetched.ema200Distance = fetched.ema50Distance

\* Entry i of all is the first with its symbol.
FirstOccurrence(all, i) == \A j \in 1..(i - 1) : all[j].symbol # all[i].symbol

\* The scrape gave no symbols: the request raised, or the pattern matched nothing.
ScrapeFailed(sc) == sc.raises \/ FindAll(sc.cells) = <<>>

\* The futures whose fetch returned a ScanResult.
Succeeded == {i \in 1..N : foutcome[i].kind = "result"}

\* How often record x occurs in the list rs.
Occurrences(rs, x) == Cardinality({k \in 1..Len(rs) : rs[k].symbol = x.symbol /\ rs[k] = x})

\* The near-breakout results of rs, stated from the glossary: the price lies
\* below the 50-day EMA by more than 0% and less than NEAR_PCT percent.
NearBreakout(r) ==
    /\ RLess(r.currentPrice, r.ema50)
    /\ RLess(RMul(RSub(r.ema50, r.currentPrice), FromInt(100)),
             RMul(FromInt(NEAR_PCT), r.ema50))

AboveEma(r) == RLess(r.ema50, r.currentPrice)

InList(rs, x) == \E k \in 1..Len(rs) : rs[k] = x

\* The list printed as "top": near-breakout results only, at most TOP_N of them,
\* ascending by absolute distance, none left out that is nearer than a listed one.
TopListRight ==
    LET top == summary.top IN
    /\ \A k \in 1..Len(top) : InList(results, top[k]) /\ NearBreakout(top[k])
    /\ \A k \in 1..Len(top) : Occurrences(top, top[k]) = 1
    /\ Len(top) <= TOP_N
    /\ Len(top) = Min(TOP_N, Cardinality({i \in 1..Len(results) : NearBreakout(results[i])}))
    /\ \A k \in 1..(Len(top) - 1) :
          ~RLess(RAbs(top[k + 1].ema50Distance), RAbs(top[k].ema50Distance))
    /\ \A i \in 1..Len(results) :
          (NearBreakout(results[i]) /\ ~InList(top, results[i])) =>
              \A k \in 1..Len(top) :
                  ~RLess(RAbs(results[i].ema50Distance), RAbs(top[k].ema50Distance))

\* The lists whose lengths are printed per category hold the category's
\* near-breakout results and its results above the EMA.
CountsRight ==
    \A i \in 1..Len(results) :
        LET r == results[i] IN
        /\ InList(summary.near_50_stocks, r) <=> (r.type = "stock" /\ NearBreakout(r))
        /\ InList(summary.above_50_stocks, r) <=> (r.type = "stock" /\ AboveEma(r))
        /\ InList(summary.near_50_crypto, r) <=> (r.type = "crypto" /\ NearBreakout(r))
        /\ InList(summary.above_50_crypto, r) <=> (r.type = "crypto" /\ AboveEma(r))

CountedNear(r) == InList(summary.near_50_stocks, r) \/ InList(summary.near_50_crypto, r)

CountedAbove(r) == InList(summary.above_50_stocks, r) \/ InList(summary.above_50_crypto, r)

\* The response is one the fetcher cannot use.
Unusable(r) ==
    \/ r.raises
    \/ r.status # HTTP_OK
    \/ r.shape # "ok"
    \/ Len(NonNull(r.close)) < EMA_SHORT

-----------------------------------------------------------------------------
(* Properties *)

\* C9: calculate_ema returns 0.0 for every sequence shorter than the period, and
\* otherwise the value of the recurrence seeded with the first element and applied
\* to every later element of the whole sequence, without trimming it to the period.
C9_EmaValue ==
    ema # <<>> =>
        ema = (IF Len(prices) < period THEN Zero ELSE Unrolled(prices, period))

\* C9 witness: an EMA was computed over a sequence longer than the period, and
\* trimming the sequence to the period would have given another value.
C9_Witness ==
    /\ ema # <<>>
    /\ Len(prices) > period
    /\ ema # Unrolled(LastN(prices, period), period)

\* C2: for every unusable response (the request or the JSON decoding raising, a
\* status other than success, a body lacking a level of the structure, fewer
\* closes than the floor after nulls are dropped) the fetcher returns None and
\* raises nothing.
C2_NoneOnUnusable ==
    (fetched.kind # "pending" /\ Unusable(response)) => fetched.kind = "none"

\* C2 witness: a success status whose body has an empty quote list, so that the
\* indexing raises inside the try, was answered with None.
C2_Witness ==
    /\ fetched.kind = "none"
    /\ ~response.raises
    /\ response.status = HTTP_OK
    /\ response.shape = "empty_quote"

\* C5 as stated: every series of at least EMA_SHORT non-null closes yields a
\* ScanResult with currentPrice the last close, ema50 over the trailing
\* EMA_SHORT closes, ema200 over the trailing EMA_LONG closes or, below EMA_LONG
\* closes, over the whole series with its length as period, and the distances
\* (currentPrice - ema) / ema * 100.
C5_AsStated ==
    (fetched.kind # "pending" /\ ReachesEma(response)) => ResultAsWanted(Closes)

\* C5 amended: the same, provided neither EMA is exactly zero; when one is, the
\* division raises inside the try and the fetcher returns None.
C5_ResultFields ==
    (fetched.kind # "pending" /\ ReachesEma(response)) =>
        IF Want50(Closes) = Zero \/ Want200(Closes) = Zero
        THEN fetched.kind = "none"
        ELSE ResultAsWanted(Closes)

\* C5 witness: a result was returned for a series longer than EMA_SHORT and
\* shorter than EMA_LONG whose two EMAs differ.
C5_Witness ==
    /\ fetched.kind = "result"
    /\ Len(Closes) > EMA_SHORT
    /\ Len(Closes) < EMA_LONG
    /\ fetched.ema200 # fetched.ema50

\* C10 as stated: on every path that reaches the EMA computation each call of
\* calculate_ema passes at least period elements, and no EMA used as divisor is
\* exactly zero.
C10_AsStated ==
    fetched.kind # "pending" =>
        \A i \in 1..Len(calls) :
            /\ Len(calls[i].prices) >= calls[i].period
            /\ calls[i].ret # Zero

\* C10 amended: each call of calculate_ema passes at least period elements, so
\* the insufficient-data branch is never taken; an EMA is exactly zero only when
\* every close passed to it is zero, and then the fetcher returns None.
C10_NoSentinel ==
    fetched.kind # "pending" =>
        \A i \in 1..Len(calls) :
            /\ Len(calls[i].prices) >= calls[i].period
            /\ calls[i].ret = Zero =>
                  /\ \A j \in 1..Len(calls[i].prices) : calls[i].prices[j] = 0
                  /\ fetched.kind = "none"

\* C10 witness: the fetcher computed both EMAs over a series shorter than
\* EMA_LONG, and one of them is exactly zero.
C10_Witness ==
    /\ fetched.kind # "pending"
    /\ Len(calls) = 2
    /\ Len(Closes) < EMA_LONG
    /\ calls[2].ret = Zero

\* C3: the universe holds no two entries with the same symbol; every symbol of
\* the merged lists A + B + crypto has exactly one entry, the full descriptor of
\* its first occurrence; the kept entries stand in the order of their first
\* occurrences.
C3_Dedup ==
    upc = "deduped" =>
        LET firsts == {i \in 1..Len(all_symbols) : FirstOccurrence(all_symbols, i)}
            pos == [k \in 1..Len(unique_symbols) |->
                       CHOOSE i \in firsts : all_symbols[i] = unique_symbols[k]]
        IN  /\ \A a, b \in 1..Len(unique_symbols) :
                  a # b => unique_symbols[a].symbol # unique_symbols[b].symbol
            /\ Len(unique_symbols) = Cardinality(firsts)
            /\ \A k \in 1..Len(unique_symbols) :
                  \E i \in firsts : all_symbols[i] = unique_symbols[k]
            /\ \A i \in firsts : \E k \in 1..Len(unique_symbols) :
                  unique_symbols[k] = all_symbols[i]
            /\ \A k \in 1..(Len(unique_symbols) - 1) : pos[k] < pos[k + 1]

\* C3 witness: a symbol scraped into list A stands in list B too, under another
\* index, and the universe holds the entry of list A.
C3_Witness ==
    /\ upc = "deduped"
    /\ ~scrape.raises
    /\ \E i \in 1..Len(sp500), j \in 1..Len(nasdaq) :
          /\ sp500[i].symbol = nasdaq[j].symbol
          /\ sp500[i] # nasdaq[j]
          /\ \E k \in 1..Len(unique_symbols) : unique_symbols[k] = sp500[i]

\* C4: list A is the fixed list whenever the scrape failed, be it that the
\* request raised or that the pattern extracted no symbol from the page; it is
\* never empty and all its entries are tagged type stock, index SPY.
C4_FallbackOnAnyFailure ==
    upc # "start" =>
        /\ sp500 # <<>>
        /\ ScrapeFailed(scrape) => sp500 = get_sp500_symbols([scrape EXCEPT !.raises = TRUE])
        /\ \A i \in 1..Len(sp500) : sp500[i].type = "stock" /\ sp500[i].index = "SPY"

\* C1: once the scan loop has finished, every completion was classified exactly
\* once: the results and the failures add up to the universe, the results are
\* exactly the ScanResults the fetches returned, each once, the failures are the
\* fetches that returned nothing; the report carries these numbers.
C1_Accounting ==
    /\ pc \in {"save", "done"} =>
          /\ Len(results) + failed = N
          /\ failed = Cardinality((1..N) \ Succeeded)
          /\ \A i \in Succeeded : Occurrences(results, foutcome[i]) = 1
          /\ \A k \in 1..Len(results) :
                \E i \in Succeeded : foutcome[i] = results[k]
    /\ pc = "done" =>
          /\ output.totalScanned = N
          /\ output.successful = Len(results)
          /\ output.failed = failed
          /\ output.data = results
          /\ output.successful + output.failed = output.totalScanned

\* C1 witness: a universe of 3 instruments, 2 fetches succeeded, 1 failed, and
\* the report says so.
C1_Witness ==
    /\ pc = "done"
    /\ N = 3
    /\ output.totalScanned = 3
    /\ output.successful = 2
    /\ output.failed = 1
    /\ Len(output.data) = 2

\* C6: at most max_workers fetches run at the same time; a fetch starts only
\* while fewer than max_workers are running; and the loop over the completions
\* begins only after every instrument has been submitted.
C6_PoolBound ==
    [][/\ Cardinality(Running') <= max_workers
       /\ \A i \in 1..N :
             (fstate[i] # "running" /\ fstate'[i] = "running") =>
                 (fstate[i] = "queued" /\ Cardinality(Running) < max_workers)
       /\ (pc' = "collect" \/ yielded' # {}) => submitted' = N]_vars

\* C6 witness: the pool is full and a submitted fetch waits in the queue.
C6_Witness ==
    /\ Cardinality(Running) = max_workers
    /\ Queued # {}

\* C7: every instrument is dispatched exactly once; the report is written only
\* after every fetch has completed; and, every started fetch returning, the scan
\* ends with the report written.
C7_ScanTerminates ==
    /\ [](\A i \in 1..N : started[i] <= 1)
    /\ []((pc \in {"save", "done"}) =>
             \A i \in 1..N : started[i] = 1 /\ fstate[i] = "finished")
    /\ [](output.source # "none" => pc = "done")
    /\ <>(pc = "done" /\ output.source # "none")

\* C7 witness: a scan of more instruments than workers is done, one of its
\* fetches failed, and that fetch was started once.
C7_Witness ==
    /\ pc = "done"
    /\ N > max_workers
    /\ output.source # "none"
    /\ \E i \in 1..N : foutcome[i].kind = "none" /\ started[i] = 1

\* C8 as stated: the printed list is right, and per category every result is
\* counted as near-breakout or as above the EMA-50, never as both.
C8_AsStated ==
    (pc = "done" /\ summary.printed) =>
        /\ TopListRight
        /\ CountsRight
        /\ \A i \in 1..Len(results) :
              CountedNear(results[i]) # CountedAbove(results[i])

\* C8 amended: the printed list is right, and per category a result is counted
\* as near-breakout, as above the EMA-50 or as neither (at the EMA, or NEAR_PCT
\* percent or more below it), never as both.
C8_Summary ==
    (pc = "done" /\ summary.printed) =>
        /\ TopListRight
        /\ CountsRight
        /\ \A i \in 1..Len(results) :
              ~(CountedNear(results[i]) /\ CountedAbove(results[i]))

\* C8 witness: more than TOP_N results are near-breakout, not in ascending
\* order of distance, and the summary was printed.
C8_Witness ==
    /\ pc = "done"
    /\ summary.printed
    /\ Cardinality({i \in 1..Len(results) : NearBreakout(results[i])}) > TOP_N
    /\ \E i \in 1..(Len(results) - 1) :
          /\ NearBreakout(results[i]) /\ NearBreakout(results[i + 1])
          /\ RLess(RAbs(results[i + 1].ema50Distance), RAbs(results[i].ema50Distance))

=============================================================================
